---- MODULE Spec2Model ----
(***************************************************************************)
(* A model of models.py: the module composition and the forward passes of  *)
(* SelfAttention, ResidualBlock, GeneratorJ, DiscriminatorN_IN and         *)
(* PerceptualVGG19.                                                        *)
(*                                                                         *)
(* Tensors are modelled by their shape (batch, channels, height, width)    *)
(* and, where a claim is about values or aliasing, by a small vector of    *)
(* integers held in a storage cell; the framework's layers are modelled by *)
(* the shape rule each one applies and by whether it writes into the       *)
(* storage of its argument (inplace) or allocates a new tensor.            *)
(***************************************************************************)
EXTENDS Integers, Sequences, FiniteSets, TLC

VARIABLES
    disc,       \* the DiscriminatorN_IN object
    discOut,    \* what the last DiscriminatorN_IN.forward did
    gen,        \* the GeneratorJ object
    genOut,     \* what the last GeneratorJ.forward did
    res,        \* the ResidualBlock object
    resOut,     \* what the last ResidualBlock.forward did
    attn,       \* the SelfAttention object
    attnOut,    \* what the last SelfAttention.forward did
    vgg,        \* the PerceptualVGG19 object
    vggOut      \* what the last PerceptualVGG19.forward did

vars == <<disc, discOut, gen, genOut, res, resOut, attn, attnOut, vgg, vggOut>>

discVars == <<disc, discOut>>
genVars  == <<gen, genOut>>
resVars  == <<res, resOut>>
attnVars == <<attn, attnOut>>
vggVars  == <<vgg, vggOut>>

-----------------------------------------------------------------------------
(* Bounds of the model *)

MaxSide   == 6   \* height and width of a discriminator input: 1..MaxSide
MaxLayers == 4   \* n_layers: 0..MaxLayers

\* The values tried for the other constructor arguments and inputs.
InChVals       == {1, 3}   \* input_channels, and the channels of an input
NumFiltersVals == {1, 3}   \* num_filters
SigmaVals      == {0, 2}   \* noise_sigma, in tenths
NoiseVals      == {-1, 1}  \* a sample of randn_like(x)

NoObj == [status |-> "none"]
NoOut == [status |-> "none"]

Min(a, b) == IF a < b THEN a ELSE b
Max(a, b) == IF a > b THEN a ELSE b

RECURSIVE Pow2(_)
Pow2(n) == IF n = 0 THEN 1 ELSE 2 * Pow2(n - 1)

-----------------------------------------------------------------------------
(* Shapes and layers *)

Shape(b, c, h, w) == [ok |-> TRUE, b |-> b, c |-> c, h |-> h, w |-> w]
ErrShape == [ok |-> FALSE, b |-> 0, c |-> 0, h |-> 0, w |-> 0]

\* One layer of the framework: its class and its constructor arguments.
Layer(kind, inC, outC, k, s, p) ==
    [kind |-> kind, inC |-> inC, outC |-> outC, k |-> k, s |-> s, p |-> p,
     sn |-> FALSE, inplace |-> FALSE, sub |-> <<>>, weight |-> <<>>]

Conv2d(inC, outC, k, s, p) == Layer("Conv2d", inC, outC, k, s, p)

\* nn.GroupNorm(num_groups=32, num_channels=c) raises ValueError unless 32 divides c.
GroupNormGroups == 32

\* norm(num_features) for the class or factory the constructors select.
NormLayer(norm, c) ==
    IF norm = "GroupNorm" /\ c % GroupNormGroups # 0
    THEN Layer("ValueError", c, c, 0, 0, 0)
    ELSE Layer(norm, c, c, 0, 0, 0)

\* A side of a convolution's output: floor((s + 2p - k) / stride) + 1.
ConvSide(side, k, s, p) ==
    IF side + 2 * p - k < 0 THEN 0 ELSE ((side + 2 * p - k) \div s) + 1

ConvShape(l, x) ==
    IF ~x.ok \/ x.c # l.inC THEN ErrShape
    ELSE LET h == ConvSide(x.h, l.k, l.s, l.p)
             w == ConvSide(x.w, l.k, l.s, l.p)
         IN  IF h < 1 \/ w < 1 THEN ErrShape ELSE Shape(x.b, l.outC, h, w)

\* nn.MaxPool2d(kernel_size, stride)
PoolShape(l, x) ==
    IF ~x.ok THEN ErrShape
    ELSE LET h == ConvSide(x.h, l.k, l.s, l.p)
             w == ConvSide(x.w, l.k, l.s, l.p)
         IN  IF h < 1 \/ w < 1 THEN ErrShape ELSE Shape(x.b, x.c, h, w)

PixelShuffleShape(l, x) ==
    IF ~x.ok \/ x.c % (l.k * l.k) # 0 THEN ErrShape
    ELSE Shape(x.b, x.c \div (l.k * l.k), x.h * l.k, x.w * l.k)

\* The channels of the first i tensors of parts, added up.
RECURSIVE SumChannels(_, _)
SumChannels(parts, i) == IF i = 0 THEN 0 ELSE parts[i].c + SumChannels(parts, i - 1)

\* torch.cat(parts, dim=1)
CatShape(parts) ==
    IF \E i \in 1..Len(parts) :
          \/ ~parts[i].ok
          \/ parts[i].b # parts[1].b
          \/ parts[i].h # parts[1].h
          \/ parts[i].w # parts[1].w
    THEN ErrShape
    ELSE Shape(parts[1].b, SumChannels(parts, Len(parts)), parts[1].h, parts[1].w)

-----------------------------------------------------------------------------
(* SelfAttention: the shapes of forward *)

Shape3(b, r, c) == [ok |-> TRUE, b |-> b, r |-> r, c |-> c]
ErrShape3 == [ok |-> FALSE, b |-> 0, r |-> 0, c |-> 0]

\* A plausible slip: the spatial size is taken for the batch size.
View3Transposed(t, batchsize, n) ==
    IF ~t.ok THEN ErrShape3
    ELSE LET numel == t.b * t.c * t.h * t.w
         IN  IF numel = 0 \/ numel % (batchsize * n) # 0 THEN ErrShape3
             ELSE Shape3(n, numel \div (batchsize * n), batchsize)

\* t.view(batchsize, -1, n): the -1 cannot be inferred for a tensor of 0 elements
\* (a convolution of 0 output channels yields one, where it does not raise itself).
View3(t, batchsize, n) ==
    IF ~t.ok THEN ErrShape3
    ELSE LET numel == t.b * t.c * t.h * t.w
         IN  IF numel = 0 \/ numel % (batchsize * n) # 0 THEN ErrShape3
             ELSE Shape3(batchsize, numel \div (batchsize * n), n)

\* t.permute(0, 2, 1)
Permute021(t) == IF ~t.ok THEN ErrShape3 ELSE Shape3(t.b, t.c, t.r)

\* torch.bmm(a, b)
Bmm(a, b) ==
    IF ~a.ok \/ ~b.ok \/ a.b # b.b \/ a.c # b.r THEN ErrShape3
    ELSE Shape3(a.b, a.r, b.c)

\* The three 1x1 convolutions SelfAttention.__init__ creates.
QueryConv(in_dim) == Conv2d(in_dim, in_dim \div 8, 1, 1, 0)
KeyConv(in_dim)   == Conv2d(in_dim, in_dim \div 8, 1, 1, 0)
ValueConv(in_dim) == Conv2d(in_dim, in_dim, 1, 1, 0)

\* The shape of the attention matrix (B x N x N) of SelfAttention.forward.
AttentionShape(in_dim, x) ==
    IF ~x.ok THEN ErrShape3
    ELSE LET n          == x.h * x.w
             proj_query == View3(ConvShape(QueryConv(in_dim), x), x.b, n)
             proj_key   == View3(ConvShape(KeyConv(in_dim), x), x.b, n)
         IN  Bmm(Permute021(proj_query), proj_key)

\* The shape SelfAttention.forward returns, or ErrShape when it raises.
SelfAttentionShape(in_dim, x) ==
    IF ~x.ok THEN ErrShape
    ELSE LET n          == x.h * x.w
             attention  == AttentionShape(in_dim, x)
             proj_value == View3(ConvShape(ValueConv(in_dim), x), x.b, n)
             out        == Bmm(proj_value, Permute021(attention))
         IN  IF ~out.ok \/ out.b * out.r * out.c # x.b * x.c * x.h * x.w
             THEN ErrShape
             ELSE Shape(x.b, x.c, x.h, x.w)

-----------------------------------------------------------------------------
(* Applying a layer or an nn.Sequential to a shape *)

NormKinds == {"BatchNorm2d", "InstanceNorm2d", "GroupNorm"}

\* Whether a normalization layer refuses its input.  A channel mismatch is an
\* error for the layers that hold per-channel statistics or weights; a single
\* value per statistic is refused only by the builds and modes that check it
\* (strict).
NormRaises(l, x, strict) ==
    \/ l.kind \in {"BatchNorm2d", "GroupNorm"} /\ x.c # l.inC
    \/ /\ strict
       /\ \/ l.kind = "BatchNorm2d" /\ x.b * x.h * x.w = 1
          \/ l.kind = "InstanceNorm2d" /\ x.h * x.w = 1
          \/ l.kind = "GroupNorm"
               /\ x.b * (x.c \div GroupNormGroups) * x.h * x.w = 1

RECURSIVE ApplySeq(_, _, _)

ApplyLayer(l, x, strict) ==
    IF ~x.ok THEN ErrShape
    ELSE CASE l.kind = "Conv2d"        -> ConvShape(l, x)
           [] l.kind = "PixelShuffle"  -> PixelShuffleShape(l, x)
           [] l.kind = "MaxPool2d"     -> PoolShape(l, x)
           [] l.kind \in NormKinds     -> IF NormRaises(l, x, strict) THEN ErrShape ELSE x
           [] l.kind = "SelfAttention" -> SelfAttentionShape(l.inC, x)
           [] l.kind = "ResidualBlock" ->
                 \* x + self.conv_block(x)
                 IF ApplySeq(l.sub, x, strict) = x THEN x ELSE ErrShape
           [] l.kind = "ValueError"    -> ErrShape
           [] OTHER                    -> x   \* activations, Dropout, Identity

ApplySeq(layers, x, strict) ==
    IF layers = <<>> THEN x
    ELSE CHOOSE r \in {ApplySeq(Tail(layers), y, strict) :
                          y \in {ApplyLayer(Head(layers), x, strict)}} : TRUE

-----------------------------------------------------------------------------
(* DiscriminatorN_IN *)

\* spectral_conv: a Conv2d wrapped in nn.utils.spectral_norm
spectral_conv(in_c, out_c, k, s, p) ==
    [Conv2d(in_c, out_c, k, s, p) EXCEPT !.sn = TRUE]

\* nn.LeakyReLU(0.2, True): the slope in tenths
LeakySlope == 2
LeakyReLU == [Layer("LeakyReLU", 0, 0, LeakySlope, 0, 0) EXCEPT !.inplace = TRUE]

\* A plausible slip: the relu flag is ignored, so conv_out gets an activation too.
make_block_always_relu(flt_in, flt_out, k, stride, padding, norm, relu) ==
    <<spectral_conv(flt_in, flt_out, k, stride, padding)>>
    \o (IF norm # "None" THEN <<NormLayer(norm, flt_out)>> ELSE <<>>)
    \o <<LeakyReLU>>

make_block(flt_in, flt_out, k, stride, padding, norm, relu) ==
    <<spectral_conv(flt_in, flt_out, k, stride, padding)>>
    \o (IF norm # "None" THEN <<NormLayer(norm, flt_out)>> ELSE <<>>)
    \o (IF relu THEN <<LeakyReLU>> ELSE <<>>)

Block(name, layers) == [name |-> name, layers |-> layers]

FltMultCap == 8

\* The loop "for l in range(1, n)" of make_net, from iteration l on.
RECURSIVE make_net_loop(_, _, _, _, _, _, _)
make_net_loop(l, n, num_filters, norm, k, stride, st) ==
    IF l >= n THEN st
    ELSE LET flt_mult_prev == st.flt_mult
             flt_mult      == Min(Pow2(l), FltMultCap)
         IN  make_net_loop(l + 1, n, num_filters, norm, k, stride,
                [flt_mult |-> flt_mult,
                 model |-> Append(st.model,
                     Block("conv_" \o ToString(l),
                           make_block(num_filters * flt_mult_prev,
                                      num_filters * flt_mult,
                                      k, stride, 1, norm, TRUE)))])

\* A plausible slip: the multiplier of the last strided block is not capped.
make_net_uncapped(n, flt_in, num_filters, norm, k, stride) ==
    LET first == <<Block("conv0", make_block(flt_in, num_filters, k, stride, 1, "None", TRUE))>>
        st    == make_net_loop(1, n, num_filters, norm, k, stride,
                               [flt_mult |-> 1, model |-> first])
        flt_mult_prev == st.flt_mult
        flt_mult      == Pow2(n)
        last  == Block("conv_" \o ToString(n),
                       make_block(num_filters * flt_mult_prev, num_filters * flt_mult,
                                  k, 1, 1, norm, TRUE))
        out   == Block("conv_out",
                       make_block(num_filters * flt_mult, 1, k, 1, 1, "None", FALSE))
    IN  st.model \o <<last, out>>

make_net(n, flt_in, num_filters, norm, k, stride) ==
    LET first == <<Block("conv0", make_block(flt_in, num_filters, k, stride, 1, "None", TRUE))>>
        st    == make_net_loop(1, n, num_filters, norm, k, stride,
                               [flt_mult |-> 1, model |-> first])
        flt_mult_prev == st.flt_mult
        flt_mult      == Min(Pow2(n), FltMultCap)
        last  == Block("conv_" \o ToString(n),
                       make_block(num_filters * flt_mult_prev, num_filters * flt_mult,
                                  k, 1, 1, norm, TRUE))
        out   == Block("conv_out",
                       make_block(num_filters * flt_mult, 1, k, 1, 1, "None", FALSE))
    IN  st.model \o <<last, out>>

\* The norm_layer values tried: the supported ones and some others.
NormNames == {"None", "batch_norm", "instance_norm", "group_norm", "layer_norm"}

\* A plausible slip: the generator's list of names, 'group_norm' included.
DiscNormClassWithGroupNorm(norm_layer) ==
    CASE norm_layer = "batch_norm"    -> "BatchNorm2d"
      [] norm_layer = "instance_norm" -> "InstanceNorm2d"
      [] norm_layer = "group_norm"    -> "GroupNorm"
      [] norm_layer = "None"          -> "None"
      [] OTHER                        -> "ValueError"

DiscNormClass(norm_layer) ==
    CASE norm_layer = "batch_norm"    -> "BatchNorm2d"
      [] norm_layer = "instance_norm" -> "InstanceNorm2d"
      [] norm_layer = "None"          -> "None"
      [] OTHER                        -> "ValueError"

\* DiscriminatorN_IN.__init__
DiscriminatorN_IN(num_filters, input_channels, n_layers, use_noise, noise_sigma, norm_layer) ==
    LET base == [status |-> "built", training |-> TRUE,
                 num_filters |-> num_filters, use_noise |-> use_noise,
                 noise_sigma |-> noise_sigma, input_channels |-> input_channels,
                 n_layers |-> n_layers, norm_arg |-> norm_layer,
                 norm_layer |-> DiscNormClass(norm_layer), net |-> <<>>]
    IN  IF DiscNormClass(norm_layer) = "ValueError"
        THEN \* raise ValueError: no object is returned, only what was assigned so far
             [status |-> "ValueError", norm_arg |-> norm_layer, net |-> <<>>]
        ELSE [base EXCEPT !.net = make_net(n_layers, input_channels, num_filters,
                                           DiscNormClass(norm_layer), 4, 2)]

RECURSIVE ApplyNet(_, _, _)
ApplyNet(blocks, x, strict) ==
    IF blocks = <<>> THEN x
    ELSE CHOOSE r \in {ApplyNet(Tail(blocks), y, strict) :
                          y \in {ApplySeq(Head(blocks).layers, x, strict)}} : TRUE

Tensor(shape, val) == [shape |-> shape, val |-> val]

\* A plausible slip: the noise is added whenever use_noise is set, also in eval mode.
DiscNetInputNoModeTest(d, x, noise) ==
    IF d.use_noise
    THEN [noised |-> TRUE, t |-> [x EXCEPT !.val = x.val + noise * d.noise_sigma]]
    ELSE [noised |-> FALSE, t |-> x]

\* The tensor forward hands to self.net: x, or x + randn_like(x) * noise_sigma,
\* and whether the noise was drawn.
DiscNetInput(d, x, noise) ==
    IF d.use_noise /\ d.training
    THEN [noised |-> TRUE, t |-> [x EXCEPT !.val = x.val + noise * d.noise_sigma]]
    ELSE [noised |-> FALSE, t |-> x]

DiscInit ==
    /\ disc.status = "none"
    /\ \E num_filters \in NumFiltersVals, input_channels \in InChVals,
          n_layers \in 0..MaxLayers, use_noise \in BOOLEAN,
          noise_sigma \in SigmaVals, norm_layer \in NormNames :
          disc' = DiscriminatorN_IN(num_filters, input_channels, n_layers,
                                    use_noise, noise_sigma, norm_layer)
    /\ UNCHANGED <<discOut, genVars, resVars, attnVars, vggVars>>

\* nn.Module.train(mode); eval() is train(False)
DiscTrain ==
    /\ disc.status = "built"
    /\ \E mode \in BOOLEAN : disc' = [disc EXCEPT !.training = mode]
    /\ UNCHANGED <<discOut, genVars, resVars, attnVars, vggVars>>

DiscForward ==
    /\ disc.status = "built"
    /\ \E c \in InChVals, side \in 1..MaxSide, noise \in NoiseVals, strict \in BOOLEAN :
          LET x     == Tensor(Shape(1, c, side, side), 1)
              xin   == DiscNetInput(disc, x, noise)
              y     == ApplyNet(disc.net, xin.t.shape, strict)
          IN  discOut' = [status |-> IF y.ok THEN "returned" ELSE "raised",
                          x |-> x, training |-> disc.training,
                          noised |-> xin.noised,
                          noise |-> IF xin.noised THEN noise ELSE 0,
                          net_input |-> xin.t,
                          first |-> y, second |-> "None"]
    /\ UNCHANGED <<disc, genVars, resVars, attnVars, vggVars>>

IdleDisc == disc = NoObj /\ discOut = NoOut
IdleGen  == gen = NoObj /\ genOut = NoOut
IdleRes  == res = NoObj /\ resOut = NoOut
IdleAttn == attn = NoObj /\ attnOut = NoOut
IdleVgg  == vgg = NoObj /\ vggOut = NoOut

AllIdle == IdleDisc /\ IdleGen /\ IdleRes /\ IdleAttn /\ IdleVgg
DiscNext == DiscInit \/ DiscTrain \/ DiscForward
DiscSpec == AllIdle /\ [][DiscNext]_vars

-----------------------------------------------------------------------------
(* ResidualBlock and upconv_layer_pixelshuffle: the layers they assemble *)

\* nn.ReLU(True), the default activation of ResidualBlock and GeneratorJ
ReLUInplace == [Layer("ReLU", 0, 0, 0, 0, 0) EXCEPT !.inplace = TRUE]
\* nn.ReLU(False)
ReLUCopy    == Layer("ReLU", 0, 0, 0, 0, 0)
Tanh        == Layer("Tanh", 0, 0, 0, 0, 0)
Identity    == Layer("Identity", 0, 0, 0, 0, 0)
\* nn.Dropout(p), p in tenths
Dropout(p)  == Layer("Dropout", 0, 0, p, 0, 0)

HasErr(layers) == \E j \in 1..Len(layers) : layers[j].kind = "ValueError"

\* The list "layers" ResidualBlock.__init__ hands to nn.Sequential.
ResidualConvBlock(dim, norm, activation, dropout) ==
    LET stage == (IF norm # "None" THEN <<NormLayer(norm, dim)>> ELSE <<>>)
                 \o <<activation>>
                 \o (IF dropout > 0 THEN <<Dropout(dropout)>> ELSE <<>>)
                 \o <<Conv2d(dim, dim, 3, 1, 1)>>
    IN  stage \o stage

\* ResidualBlock(dim, ...) as one layer of a larger network.
ResidualBlock(dim, norm, activation, dropout) ==
    LET conv_block == ResidualConvBlock(dim, norm, activation, dropout)
    IN  IF HasErr(conv_block) THEN Layer("ValueError", dim, dim, 0, 0, 0)
        ELSE [Layer("ResidualBlock", dim, dim, 0, 0, 0) EXCEPT !.sub = conv_block]

\* [layer for i in range(n)]
RECURSIVE Repeat(_, _)
Repeat(layer, n) == IF n <= 0 THEN <<>> ELSE <<layer>> \o Repeat(layer, n - 1)

PixelShuffle(r) == Layer("PixelShuffle", 0, 0, r, 0, 0)

\* A plausible slip: the convolution makes out_filters * upscale_factor channels,
\* not out_filters * upscale_factor ** 2.
upconv_layer_not_squared(in_filters, out_filters, upscale_factor, norm, nonlinearity) ==
    <<Conv2d(in_filters, out_filters * upscale_factor, 3, 1, 1),
      PixelShuffle(upscale_factor)>>
    \o (IF norm # "None" THEN <<NormLayer(norm, out_filters)>> ELSE <<>>)
    \o <<nonlinearity>>

upconv_layer_pixelshuffle(in_filters, out_filters, upscale_factor, norm, nonlinearity) ==
    <<Conv2d(in_filters, out_filters * (upscale_factor * upscale_factor), 3, 1, 1),
      PixelShuffle(upscale_factor)>>
    \o (IF norm # "None" THEN <<NormLayer(norm, out_filters)>> ELSE <<>>)
    \o <<nonlinearity>>

-----------------------------------------------------------------------------
(* GeneratorJ *)

MaxGenSide   == 8   \* height and width of a generator input: 1..MaxGenSide
MaxResBlocks == 2   \* resnet_blocks: 0..MaxResBlocks

\* The filters tuples tried: the default, one of distinct multiples of 32, one of
\* distinct small widths with filters[2] = 8, one with filters[2] < 8.
FilterTuples ==
    { <<64, 128, 128, 128, 128, 64>>,
      <<32, 64, 96, 128, 160, 192>>,
      <<2, 3, 8, 5, 6, 7>>,
      <<1, 2, 3, 4, 5, 6>> }

GenNormClass(norm_layer) ==
    CASE norm_layer = "None"          -> "None"
      [] norm_layer = "batch_norm"    -> "BatchNorm2d"
      [] norm_layer = "instance_norm" -> "InstanceNorm2d"
      [] norm_layer = "group_norm"    -> "GroupNorm"
      [] OTHER                        -> "ValueError"

_conv_block(in_c, out_c, k, s, p, norm, act) ==
    <<Conv2d(in_c, out_c, k, s, p)>>
    \o (IF norm # "None" THEN <<NormLayer(norm, out_c)>> ELSE <<>>)
    \o <<act>>

\* A plausible slip: upconv1 is built for a skip from conv2 instead of conv1.
GenModulesWrongSkip(f, input_channels, resnet_blocks, norm, use_attention, append_smoothers, tanh, activation, dropout) ==
    <<Block("conv0", _conv_block(input_channels, f[1], 7, 1, 3, norm, activation)),
      Block("conv1", _conv_block(f[1], f[2], 3, 2, 1, norm, activation)),
      Block("conv2", _conv_block(f[2], f[3], 3, 2, 1, norm, activation)),
      Block("resnets", Repeat(ResidualBlock(f[3], norm, activation, dropout),
                              resnet_blocks)),
      Block("attention", IF use_attention
                         THEN <<Layer("SelfAttention", f[3], f[3], 0, 0, 0)>>
                         ELSE <<Identity>>),
      Block("upconv2", upconv_layer_pixelshuffle(f[3] + f[3], f[4], 2, norm, activation)),
      Block("upconv1", upconv_layer_pixelshuffle(f[4] + f[3], f[5], 2, norm, activation)),
      Block("conv_11", <<Conv2d(f[5] + f[1] + input_channels, f[6], 7, 1, 3), activation>>),
      Block("conv_11_a",
            IF append_smoothers
            THEN <<Conv2d(f[6], f[6], 3, 1, 1), activation>>
                 \o (IF norm # "None" THEN <<NormLayer(norm, f[6])>> ELSE <<>>)
                 \o <<Conv2d(f[6], f[6], 3, 1, 1), activation>>
            ELSE <<Identity>>),
      Block("conv_12",
            IF tanh THEN <<Conv2d(f[6], 3, 1, 1, 0), Tanh>>
            ELSE <<Conv2d(f[6], 3, 1, 1, 0)>>)>>

\* filters is the Python tuple: filters[i] there is f[i + 1] here.
\* The sub-modules in the order __init__ assigns them.
GenModules(f, input_channels, resnet_blocks, norm, use_attention, append_smoothers, tanh, activation, dropout) ==
    <<Block("conv0", _conv_block(input_channels, f[1], 7, 1, 3, norm, activation)),
      Block("conv1", _conv_block(f[1], f[2], 3, 2, 1, norm, activation)),
      Block("conv2", _conv_block(f[2], f[3], 3, 2, 1, norm, activation)),
      Block("resnets", Repeat(ResidualBlock(f[3], norm, activation, dropout),
                              resnet_blocks)),
      Block("attention", IF use_attention
                         THEN <<Layer("SelfAttention", f[3], f[3], 0, 0, 0)>>
                         ELSE <<Identity>>),
      Block("upconv2", upconv_layer_pixelshuffle(f[3] + f[3], f[4], 2, norm, activation)),
      Block("upconv1", upconv_layer_pixelshuffle(f[4] + f[2], f[5], 2, norm, activation)),
      Block("conv_11", <<Conv2d(f[5] + f[1] + input_channels, f[6], 7, 1, 3), activation>>),
      Block("conv_11_a",
            IF append_smoothers
            THEN <<Conv2d(f[6], f[6], 3, 1, 1), activation>>
                 \o (IF norm # "None" THEN <<NormLayer(norm, f[6])>> ELSE <<>>)
                 \o <<Conv2d(f[6], f[6], 3, 1, 1), activation>>
            ELSE <<Identity>>),
      Block("conv_12",
            IF tanh THEN <<Conv2d(f[6], 3, 1, 1, 0), Tanh>>
            ELSE <<Conv2d(f[6], 3, 1, 1, 0)>>)>>

\* The sub-modules assigned before the first constructor that raises.
RECURSIVE Registered(_)
Registered(mods) ==
    IF mods = <<>> \/ HasErr(Head(mods).layers) THEN <<>>
    ELSE <<Head(mods)>> \o Registered(Tail(mods))

\* GeneratorJ.__init__ (activation and dropout at their defaults)
GeneratorJ(norm_layer, resnet_blocks, tanh, filters, input_channels, append_smoothers, use_attention) ==
    IF GenNormClass(norm_layer) = "ValueError"
    THEN [status |-> "ValueError", error |-> "Unknown normalization",
          norm_arg |-> norm_layer, mods |-> <<>>]
    ELSE LET all == GenModules(filters, input_channels, resnet_blocks,
                               GenNormClass(norm_layer), use_attention,
                               append_smoothers, tanh, ReLUInplace, 0)
             reg == Registered(all)
         IN  IF Len(reg) < Len(all)
             THEN [status |-> "ValueError", error |-> "num_channels must be divisible by num_groups",
                   norm_arg |-> norm_layer, mods |-> reg]
             ELSE [status |-> "built", norm_arg |-> norm_layer,
                   resnet_blocks |-> resnet_blocks, tanh |-> tanh,
                   filters |-> filters, input_channels |-> input_channels,
                   append_smoothers |-> append_smoothers,
                   use_attention |-> use_attention, mods |-> all]

\* self.<name>
Mod(g, name) == (CHOOSE i \in 1..Len(g.mods) : g.mods[i].name = name)

Sub(g, name) == g.mods[Mod(g, name)].layers

\* The first operation of forward that raised, given the shapes it computed in
\* order; "nowhere" when none did.
RaisedAt(steps) ==
    LET failed == {j \in 1..Len(steps) : ~steps[j].y.ok}
    IN  IF failed = {} THEN "nowhere"
        ELSE steps[CHOOSE j \in failed : \A m \in failed : j <= m].at

Step(at, y) == [at |-> at, y |-> y]

GenInit ==
    /\ gen.status = "none"
    /\ \E norm_layer \in NormNames, resnet_blocks \in 0..MaxResBlocks,
          tanh \in BOOLEAN, filters \in FilterTuples, input_channels \in InChVals,
          append_smoothers \in BOOLEAN, use_attention \in BOOLEAN :
          gen' = GeneratorJ(norm_layer, resnet_blocks, tanh, filters, input_channels,
                            append_smoothers, use_attention)
    /\ UNCHANGED <<genOut, discVars, resVars, attnVars, vggVars>>

\* GeneratorJ.forward, once per object (it assigns no field of the module): the
\* shape of every tensor it computes, ErrShape from the first operation that
\* raises on.
GenForward ==
    /\ gen.status = "built"
    /\ genOut.status = "none"
    /\ \E c \in InChVals, h \in 1..MaxGenSide, w \in 1..MaxGenSide, strict \in BOOLEAN :
       \E x \in {Shape(1, c, h, w)} :
       \E output_0 \in {ApplySeq(Sub(gen, "conv0"), x, strict)} :
       \E output_1 \in {ApplySeq(Sub(gen, "conv1"), output_0, strict)} :
       \E output_2 \in {ApplySeq(Sub(gen, "conv2"), output_1, strict)} :
       \E resnets  \in {ApplySeq(Sub(gen, "resnets"), output_2, strict)} :
       \E attended \in {ApplySeq(Sub(gen, "attention"), resnets, strict)} :
       \E cat2     \in {CatShape(<<attended, output_2>>)} :
       \E up2      \in {ApplySeq(Sub(gen, "upconv2"), cat2, strict)} :
       \E cat1     \in {CatShape(<<up2, output_1>>)} :
       \E up1      \in {ApplySeq(Sub(gen, "upconv1"), cat1, strict)} :
       \E cat0     \in {CatShape(<<up1, output_0, x>>)} :
       \E c11      \in {ApplySeq(Sub(gen, "conv_11"), cat0, strict)} :
       \E c11a     \in {ApplySeq(Sub(gen, "conv_11_a"), c11, strict)} :
       \E output   \in {ApplySeq(Sub(gen, "conv_12"), c11a, strict)} :
          genOut' = [status |-> IF output.ok THEN "returned" ELSE "raised",
                     raised_at |-> RaisedAt(<<
                         Step("conv0", output_0), Step("conv1", output_1),
                         Step("conv2", output_2), Step("resnets", resnets),
                         Step("attention", attended), Step("cat2", cat2),
                         Step("upconv2", up2), Step("cat1", cat1),
                         Step("upconv1", up1), Step("cat0", cat0),
                         Step("conv_11", c11), Step("conv_11_a", c11a),
                         Step("conv_12", output)>>),
                     x |-> x, strict |-> strict,
                     attention_in |-> resnets, attention_out |-> attended,
                     cat2 |-> cat2, cat1 |-> cat1, cat0 |-> cat0, output |-> output]
    /\ UNCHANGED <<gen, discVars, resVars, attnVars, vggVars>>

GenNext == GenInit \/ GenForward
GenSpec == AllIdle /\ [][GenNext]_vars

-----------------------------------------------------------------------------
(* Values: tensors as storage cells *)

MaxAbs == 1   \* an element of an input tensor: -MaxAbs..MaxAbs

\* A tensor's values are two neighbouring elements of it; a heap is the sequence
\* of the tensors allocated so far and a tensor is named by its index in it.
Elems == 1..2
Vec(a, b) == <<a, b>>

Relu(v) == [i \in DOMAIN v |-> IF v[i] > 0 THEN v[i] ELSE 0]

Sgn(n) == IF n > 0 THEN 1 ELSE IF n < 0 THEN -1 ELSE 0

\* Normalization over the two elements by their own statistics:
\* (v - mean) / sqrt(var + eps), which is +1/-1 for two different values, 0 for equal.
Normalize(v) == [i \in Elems |-> Sgn(2 * v[i] - (v[1] + v[2]))]

\* v[i], and 0 in the padding around v.
At(v, i) == IF i \in DOMAIN v THEN v[i] ELSE 0

\* A 3x3 convolution with padding 1 along the elements: weight = <<left, centre, right>>.
Conv(weight, v) ==
    [i \in DOMAIN v |->
        weight[1] * At(v, i - 1) + weight[2] * v[i] + weight[3] * At(v, i + 1)]

\* nn.MaxPool2d(2, 2) over the two elements.
MaxPool(v) == IF Len(v) >= 2 THEN <<Max(v[1], v[2])>> ELSE <<>>

\* nn.Dropout(p) in training mode: an element is zeroed where mask is 0 and
\* scaled by 1 / (1 - p) where it is 1 (p in tenths).
DropoutApply(p, mask, v) == [i \in DOMAIN v |-> mask[i] * ((10 * v[i]) \div (10 - p))]

Add(u, v) == [i \in DOMAIN v |-> u[i] + v[i]]

\* What a layer computes from the value v of its input.  env.training is the
\* module's mode and env.masks[j] the dropout mask drawn by layer j.
LayerValue(l, j, v, env) ==
    CASE l.kind = "Conv2d"         -> Conv(l.weight, v)
      [] l.kind = "ReLU"           -> Relu(v)
      [] l.kind = "InstanceNorm2d" -> Normalize(v)
      [] l.kind = "BatchNorm2d"    -> IF env.training THEN Normalize(v) ELSE v
      [] l.kind = "Dropout"        -> IF env.training THEN DropoutApply(l.k, env.masks[j], v) ELSE v
      [] l.kind = "MaxPool2d"      -> MaxPool(v)
      [] OTHER                     -> v

\* A tensor in a heap: its storage cell and its shape.
Ref(cell, shape) == [cell |-> cell, shape |-> shape]

\* One layer applied to the tensor t of heap: an inplace layer writes its result
\* into t's cell and returns t, every other layer allocates a new tensor.  A
\* layer that raises leaves the heap as it is.
RunLayer(l, j, st, env) ==
    IF ~st.t.shape.ok THEN st
    ELSE LET shape == ApplyLayer(l, st.t.shape, env.strict)
             value == LayerValue(l, j, st.heap[st.t.cell], env)
         IN  IF ~shape.ok THEN [st EXCEPT !.t.shape = ErrShape]
             ELSE IF l.inplace
             THEN [st EXCEPT !.heap[st.t.cell] = value]
             ELSE [heap |-> Append(st.heap, value),
                   t |-> Ref(Len(st.heap) + 1, shape)]

\* nn.Sequential.forward from layer j on.
RECURSIVE RunSeq(_, _, _, _)
RunSeq(layers, j, st, env) ==
    IF j > Len(layers) THEN st
    ELSE CHOOSE r \in {RunSeq(layers, j + 1, s2, env) :
                          s2 \in {RunLayer(layers[j], j, st, env)}} : TRUE

\* The same layers as a function of the value alone: what they compute from v
\* when no tensor shares storage with another.
RECURSIVE SeqValue(_, _, _, _)
SeqValue(layers, j, v, env) ==
    IF j > Len(layers) THEN v
    ELSE CHOOSE r \in {SeqValue(layers, j + 1, v2, env) :
                          v2 \in {LayerValue(layers[j], j, v, env)}} : TRUE

-----------------------------------------------------------------------------
(* ResidualBlock *)

\* The kernels tried for the two convolutions.
Kernels == { <<0, 1, 0>>, <<1, -1, 2>> }

\* The values tried for the constructor arguments.
DimVals     == {1, 2}
ResNorms    == {"None", "InstanceNorm2d", "BatchNorm2d"}
Activations == {ReLUInplace, ReLUCopy}
DropoutVals == {0, 5}   \* in tenths

\* The convolutions of layers given their weights, in order.
RECURSIVE WithWeights(_, _)
WithWeights(layers, ws) ==
    IF layers = <<>> THEN <<>>
    ELSE IF Head(layers).kind = "Conv2d"
    THEN <<[Head(layers) EXCEPT !.weight = Head(ws)]>> \o WithWeights(Tail(layers), Tail(ws))
    ELSE <<Head(layers)>> \o WithWeights(Tail(layers), ws)

\* ResidualBlock.__init__; ws are the weights the two convolutions start with.
ResidualBlockInit(dim, norm_layer, activation, dropout, ws) ==
    [status |-> "built", training |-> TRUE, dim |-> dim, norm_layer |-> norm_layer,
     activation |-> activation, dropout |-> dropout,
     conv_block |-> WithWeights(ResidualConvBlock(dim, norm_layer, activation, dropout), ws)]

\* ResidualBlock.forward on the tensor x of heap: x + self.conv_block(x), the
\* left operand read when the addition is carried out.
ResidualForward(r, heap, x, env) ==
    LET st == RunSeq(r.conv_block, 1, [heap |-> heap, t |-> x], env)
    IN  IF ~st.t.shape.ok \/ st.t.shape # x.shape
        THEN [status |-> "raised", heap |-> st.heap]
        ELSE [status |-> "returned", heap |-> st.heap, shape |-> x.shape,
              value |-> Add(st.heap[x.cell], st.heap[st.t.cell])]

Masks == [Elems -> {0, 1}]

ResInit ==
    /\ res.status = "none"
    /\ \E dim \in DimVals, norm_layer \in ResNorms, activation \in Activations,
          dropout \in DropoutVals, w1 \in Kernels, w2 \in Kernels :
          res' = ResidualBlockInit(dim, norm_layer, activation, dropout, <<w1, w2>>)
    /\ UNCHANGED <<resOut, discVars, genVars, attnVars, vggVars>>

ResTrain ==
    /\ res.status = "built"
    /\ \E mode \in BOOLEAN : res' = [res EXCEPT !.training = mode]
    /\ UNCHANGED <<resOut, discVars, genVars, attnVars, vggVars>>

\* One call of forward on a tensor x the caller holds (it assigns no field of
\* the module).
ResForward ==
    /\ res.status = "built"
    /\ resOut.status = "none"
    /\ \E c \in DimVals, a \in -MaxAbs..MaxAbs, b \in -MaxAbs..MaxAbs,
          m1 \in Masks, m2 \in Masks, strict \in BOOLEAN :
       \E masks \in {[j \in 1..Len(res.conv_block) |->
                        IF j <= Len(res.conv_block) \div 2 THEN m1 ELSE m2]} :
       \E env \in {[training |-> res.training, strict |-> strict,
                    masks |-> IF res.training /\ res.dropout > 0 THEN masks ELSE <<>>]} :
       \E out \in {ResidualForward(res, <<Vec(a, b)>>, Ref(1, Shape(1, c, 1, 2)), env)} :
          resOut' = [status |-> out.status, training |-> res.training,
                     x_shape |-> Shape(1, c, 1, 2),
                     x_before |-> Vec(a, b), x_after |-> out.heap[1],
                     env |-> env, out |-> out]
    /\ UNCHANGED <<res, discVars, genVars, attnVars, vggVars>>

ResNext == ResInit \/ ResTrain \/ ResForward
ResSpec == AllIdle /\ [][ResNext]_vars

-----------------------------------------------------------------------------
(* SelfAttention *)

MaxDim == 9   \* in_dim: 1..MaxDim

\* The values tried for the inputs and the parameters.
AttnBatch    == {1, 2}
AttnSides    == {1, 2}
AttnVals     == {-1, 0, 2}
ValueWeights == {-1, 2}    \* the weight of value_conv
GammaVals    == {-1, 0, 1} \* what training can make of gamma

\* A plausible slip: gamma starts at 1 (torch.ones).
SelfAttentionInitGammaOne(in_dim, wv) ==
    [status |-> "built", kind |-> "SelfAttention", in_dim |-> in_dim,
     value_weight |-> wv, gamma |-> 1, fresh |-> TRUE]

\* SelfAttention.__init__: gamma = torch.zeros(1); wv is the weight value_conv
\* starts with.
SelfAttentionInit(in_dim, wv) ==
    [status |-> "built", kind |-> "SelfAttention", in_dim |-> in_dim,
     value_weight |-> wv, gamma |-> 0, fresh |-> TRUE]

\* nn.Identity()
IdentityInit ==
    [status |-> "built", kind |-> "Identity", in_dim |-> 0,
     value_weight |-> 0, gamma |-> 0, fresh |-> TRUE]

\* self.attention as GeneratorJ.__init__ assigns it for filters[2] = in_dim.
AttentionStage(use_attention, in_dim, wv) ==
    IF use_attention THEN SelfAttentionInit(in_dim, wv) ELSE IdentityInit

Scale(k, v) == [i \in DOMAIN v |-> k * v[i]]

\* The values a row of softmax weights (positive, of sum 1) can make of the
\* elements of v: those between the least and the greatest of them.
Attended(v) ==
    {Vec(a, b) : a \in Min(v[1], v[2])..Max(v[1], v[2]),
                 b \in Min(v[1], v[2])..Max(v[1], v[2])}

\* self.gamma * out + x
AttnOutValue(gamma, out, x) == Add(Scale(gamma, out), x)

AttnInit ==
    /\ attn.status = "none"
    /\ \E use_attention \in BOOLEAN, in_dim \in 1..MaxDim, wv \in ValueWeights :
          attn' = AttentionStage(use_attention, in_dim, wv)
    /\ UNCHANGED <<attnOut, discVars, genVars, resVars, vggVars>>

\* An optimizer step on the parameter gamma.
AttnUpdateGamma ==
    /\ attn.status = "built" /\ attn.kind = "SelfAttention"
    /\ \E g \in GammaVals : attn' = [attn EXCEPT !.gamma = g, !.fresh = FALSE]
    /\ UNCHANGED <<attnOut, discVars, genVars, resVars, vggVars>>

\* One call of self.attention(x) (forward assigns no field of the module).
AttnForward ==
    /\ attn.status = "built"
    /\ attnOut.status = "none"
    /\ \E b \in AttnBatch, c \in {attn.in_dim, attn.in_dim + 1},
          width \in AttnSides, height \in AttnSides,
          v1 \in AttnVals, v2 \in AttnVals :
       \E x \in {Tensor(Shape(b, c, width, height), Vec(v1, v2))} :
          IF attn.kind = "Identity"
          THEN attnOut' = [status |-> "returned", x |-> x, gamma |-> 0,
                           fresh |-> attn.fresh,
                           attention |-> ErrShape3, out |-> x.val, y |-> x]
          ELSE \E shape \in {SelfAttentionShape(attn.in_dim, x.shape)} :
               \E proj_value \in {Scale(attn.value_weight, x.val)} :
               \E out \in Attended(proj_value) :
                  attnOut' = [status |-> IF shape.ok THEN "returned" ELSE "raised",
                              x |-> x, gamma |-> attn.gamma, fresh |-> attn.fresh,
                              attention |-> AttentionShape(attn.in_dim, x.shape),
                              out |-> out,
                              y |-> Tensor(shape, AttnOutValue(attn.gamma, out, x.val))]
    /\ UNCHANGED <<attn, discVars, genVars, resVars, vggVars>>

AttnNext == AttnInit \/ AttnUpdateGamma \/ AttnForward
AttnSpec == AllIdle /\ [][AttnNext]_vars

-----------------------------------------------------------------------------
(* PerceptualVGG19 *)

MaxLayer == 5   \* an index in feature_layers: 0..MaxLayer

\* The lengths of feature_layers tried, and the inputs (in thousandths).
FeatLens == {1, 2, 3}
VggVals  == {-1000, 0, 1000}
VggChans == {1, 3}

\* models.vgg19().features: 3x3 convolutions of 64, 64, 128, 128, 256, ... channels,
\* each followed by ReLU(inplace=True), with MaxPool2d(2, 2) at 4, 9, 18, 27, 36.
VggPools == {4, 9, 18, 27, 36}
VggConvs == {0, 2, 5, 7, 10, 12, 14, 16, 19, 21, 23, 25, 28, 30, 32, 34}

\* The channels of the tensor that layer i of the features receives.
VggWidth(i) ==
    IF i = 0 THEN 3 ELSE IF i <= 4 THEN 64 ELSE IF i <= 9 THEN 128
    ELSE IF i <= 18 THEN 256 ELSE 512

\* The weights stand for the pretrained ones: fixed, different from layer to layer.
VggFeature(i) ==
    IF i \in VggPools THEN Layer("MaxPool2d", 0, 0, 2, 2, 0)
    ELSE IF i \in VggConvs
    THEN [Conv2d(VggWidth(i), VggWidth(i + 1), 3, 1, 1)
            EXCEPT !.weight = IF i % 4 = 0 THEN <<1, -2, 0>> ELSE <<0, 1, -1>>]
    ELSE ReLUInplace

\* self.model.features[0 .. n]
VggFeatures(n) == [j \in 1..(n + 1) |-> VggFeature(j - 1)]

\* self.mean and self.std for the first channel, in thousandths
Mean0 == 485
Std0  == 229

\* None where a shape is expected
NoneShape == [ok |-> FALSE, b |-> -1, c |-> -1, h |-> -1, w |-> -1]

\* PerceptualVGG19.__init__; mean_tensor and std_tensor are set together and
\* are kept by their shape.
PerceptualVGG19(feature_layers, use_normalization) ==
    [status |-> "built", feature_layers |-> feature_layers,
     use_normalization |-> use_normalization, mean_tensor |-> NoneShape]

\* max(self.feature_layers)
RECURSIVE SeqMax(_)
SeqMax(q) == IF Len(q) = 1 THEN q[1] ELSE Max(q[1], SeqMax(Tail(q)))

\* i in self.feature_layers
InSeq(i, q) == \E j \in 1..Len(q) : q[j] = i

\* normalize: the value it returns ((x + 1) / 2 - mean) / std, or x itself.
NormalizeValue(v) ==
    [i \in DOMAIN v |-> (((v[i] + 1000) \div 2 - Mean0) * 1000) \div Std0]

\* normalize: whether expand_as(x) raises: mean.view(1, 3, 1, 1) expands only
\* to 3 channels.
NormalizeRaises(p, x) == p.use_normalization /\ x.shape.c # 3

\* normalize: self.mean_tensor after the call.
NormalizeCache(p, x) ==
    IF ~p.use_normalization THEN p.mean_tensor
    ELSE IF p.mean_tensor = NoneShape \/ p.mean_tensor # x.shape THEN x.shape
    ELSE p.mean_tensor

normalize(p, x) ==
    IF ~p.use_normalization THEN x
    ELSE Tensor(x.shape, NormalizeValue(x.val))

\* A plausible slip: the features are kept without clone(), as views of h.
VggTakeNoClone(st, i) ==
    [st EXCEPT !.features = Append(st.features, Ref(st.t.cell, st.t.shape))]

\* features.append(h.clone().view(h.size(0), -1)): a copy of h in a cell of its own.
VggTake(st, i) ==
    [st EXCEPT !.heap = Append(st.heap, st.heap[st.t.cell]),
               !.features = Append(st.features, Ref(Len(st.heap) + 1, st.t.shape))]

\* The body of "for i in range(max_layer + 1)" for one i.
VggStep(p, st, i, env) ==
    IF ~st.t.shape.ok THEN st
    ELSE LET after == RunLayer(VggFeature(i), i + 1,
                               [heap |-> st.heap, t |-> st.t], env)
             st2   == [st EXCEPT !.heap = after.heap, !.t = after.t,
                                 !.applied = Append(st.applied, i)]
         IN  IF after.t.shape.ok /\ InSeq(i, p.feature_layers)
             THEN VggTake(st2, i) ELSE st2

RECURSIVE VggLoop(_, _, _, _, _)
VggLoop(p, st, i, max_layer, env) ==
    IF i > max_layer THEN st
    ELSE CHOOSE r \in {VggLoop(p, s2, i + 1, max_layer, env) :
                          s2 \in {VggStep(p, st, i, env)}} : TRUE

\* torch.cat(features, dim=1) of the flattened features, read when cat runs.
RECURSIVE CatValues(_, _)
CatValues(heap, features) ==
    IF features = <<>> THEN <<>>
    ELSE heap[Head(features).cell] \o CatValues(heap, Tail(features))

RECURSIVE CatNumel(_)
CatNumel(features) ==
    IF features = <<>> THEN 0
    ELSE Head(features).shape.c * Head(features).shape.h * Head(features).shape.w
         + CatNumel(Tail(features))

\* PerceptualVGG19.extract_features on the tensor x.
extract_features(p, x, env) ==
    LET st == VggLoop(p, [heap |-> <<x.val>>, t |-> Ref(1, x.shape),
                          features |-> <<>>, applied |-> <<>>],
                      0, SeqMax(p.feature_layers), env)
    IN  [ok |-> st.t.shape.ok, applied |-> st.applied,
         val |-> CatValues(st.heap, st.features),
         shape |-> <<x.shape.b, CatNumel(st.features)>>]

\* The sequences of the given lengths over S.
SeqsOf(S, lens) == UNION {[1..n -> S] : n \in lens}

VggInit ==
    /\ vgg.status = "none"
    /\ \E feature_layers \in SeqsOf(0..MaxLayer, FeatLens), use_normalization \in BOOLEAN :
          vgg' = PerceptualVGG19(feature_layers, use_normalization)
    /\ UNCHANGED <<vggOut, discVars, genVars, resVars, attnVars>>

\* PerceptualVGG19.forward
VggForward ==
    /\ vgg.status = "built"
    /\ \E c \in VggChans, v1 \in VggVals, v2 \in VggVals :
       \E x \in {Tensor(Shape(1, c, 2, 2), Vec(v1, v2))} :
          IF NormalizeRaises(vgg, x)
          THEN /\ vggOut' = [status |-> "raised", x |-> x]
               /\ UNCHANGED vgg
          ELSE \E xn \in {normalize(vgg, x)} :
               \E features \in {extract_features(vgg, xn,
                                   [training |-> FALSE, strict |-> FALSE, masks |-> <<>>])} :
                  /\ vgg' = [vgg EXCEPT !.mean_tensor = NormalizeCache(vgg, x)]
                  /\ vggOut' = IF features.ok
                               THEN [status |-> "returned", x |-> x, normalized |-> xn,
                                     first |-> "None", features |-> features]
                               ELSE [status |-> "raised", x |-> x]
    /\ UNCHANGED <<discVars, genVars, resVars, attnVars>>

VggNext == VggInit \/ VggForward
VggSpec == AllIdle /\ [][VggNext]_vars

-----------------------------------------------------------------------------
(* Claims about DiscriminatorN_IN *)

DiscBuilt == disc.status = "built"

\* The convolution of block i of the net, and the block's other layers.
BlockConv(i) == disc.net[i].layers[1]
BlockNorms(i) == {j \in 1..Len(disc.net[i].layers) : disc.net[i].layers[j].kind \in NormKinds}
BlockConvs(i) == {j \in 1..Len(disc.net[i].layers) : disc.net[i].layers[j].kind = "Conv2d"}
BlockLast(i) == disc.net[i].layers[Len(disc.net[i].layers)]

\* C2: for n_layers >= 1 the net has n_layers + 2 blocks conv0, conv_1 ..
\* conv_{n_layers}, conv_out; conv0 maps input_channels to num_filters, conv_l
\* maps num_filters*min(2^(l-1),8) to num_filters*min(2^l,8), conv_out maps
\* num_filters*min(2^n_layers,8) to 1; each block's in-channels are the previous
\* block's out-channels and no width exceeds 8*num_filters.
C2_DiscChannelsChain ==
    (DiscBuilt /\ disc.n_layers >= 1) =>
        LET n  == disc.n_layers
            nf == disc.num_filters
        IN  /\ Len(disc.net) = n + 2
            /\ disc.net[1].name = "conv0"
            /\ disc.net[n + 2].name = "conv_out"
            /\ \A l \in 1..n : disc.net[l + 1].name = "conv_" \o ToString(l)
            /\ BlockConv(1).inC = disc.input_channels
            /\ BlockConv(1).outC = nf
            /\ \A l \in 1..n :
                  /\ BlockConv(l + 1).inC = nf * Min(Pow2(l - 1), 8)
                  /\ BlockConv(l + 1).outC = nf * Min(Pow2(l), 8)
            /\ BlockConv(n + 2).inC = nf * Min(Pow2(n), 8)
            /\ BlockConv(n + 2).outC = 1
            /\ \A i \in 2..(n + 2) : BlockConv(i).inC = BlockConv(i - 1).outC
            /\ \A i \in 1..(n + 2) : BlockConv(i).outC <= 8 * nf
            /\ \A i \in 2..(n + 2) : BlockConv(i).inC <= 8 * nf

\* A net deep enough for the cap of 8 to bind has been built.
C2_Witness ==
    DiscBuilt /\ disc.n_layers >= 4 /\ Len(disc.net) = disc.n_layers + 2
    /\ BlockConv(disc.n_layers + 1).outC = 8 * disc.num_filters

\* C3: every block has exactly one convolution, its first layer, wrapped in
\* spectral normalization; conv0 and conv_out hold no normalization layer, each
\* block between holds exactly one when norm_layer is not None and none when it
\* is; every block but conv_out ends with LeakyReLU(0.2) and conv_out holds no
\* activation; the first n_layers blocks have stride 2, the last two stride 1.
C3_DiscBlockStructure ==
    (DiscBuilt /\ disc.n_layers >= 1) =>
        LET n == disc.n_layers
            m == Len(disc.net)
        IN  /\ \A i \in 1..m :
                  /\ BlockConvs(i) = {1}
                  /\ BlockConv(i).sn
            /\ BlockNorms(1) = {} /\ BlockNorms(m) = {}
            /\ \A i \in 2..(m - 1) :
                  IF disc.norm_layer # "None"
                  THEN BlockNorms(i) = {2} /\ disc.net[i].layers[2].kind = disc.norm_layer
                  ELSE BlockNorms(i) = {}
            /\ \A i \in 1..(m - 1) :
                  /\ BlockLast(i).kind = "LeakyReLU" /\ BlockLast(i).k = 2
                  /\ Len(disc.net[i].layers) = 2 + Cardinality(BlockNorms(i))
            /\ Len(disc.net[m].layers) = 1
            /\ \A i \in 1..n : BlockConv(i).s = 2
            /\ \A i \in (m - 1)..m : BlockConv(i).s = 1
            /\ m = n + 2

\* A net with a normalization layer in its middle blocks has been built.
C3_Witness ==
    DiscBuilt /\ disc.n_layers >= 2 /\ disc.norm_layer = "InstanceNorm2d"
    /\ BlockNorms(2) = {2} /\ BlockNorms(1) = {}

\* C7: forward draws and adds the noise exactly when use_noise is set and the
\* module is in training mode, and then the net receives x + noise*noise_sigma;
\* otherwise the net receives x itself; whenever forward returns, the second
\* component of the pair is None.
C7_DiscNoiseOnlyInTraining ==
    (DiscBuilt /\ discOut.status # "none") =>
        /\ discOut.noised <=> (disc.use_noise /\ discOut.training)
        /\ ~discOut.noised => discOut.net_input = discOut.x
        /\ discOut.noised =>
              /\ discOut.net_input.shape = discOut.x.shape
              /\ discOut.net_input.val = discOut.x.val + discOut.noise * disc.noise_sigma
        /\ discOut.status = "returned" => discOut.second = "None"

\* forward has returned in eval mode on a discriminator built with use_noise and
\* a non-zero sigma.
C7_Witness ==
    /\ DiscBuilt /\ discOut.status = "returned"
    /\ disc.use_noise /\ disc.noise_sigma # 0 /\ ~discOut.training
    /\ discOut.net_input = discOut.x

-----------------------------------------------------------------------------
(* Claims about GeneratorJ *)

GenBuilt == gen.status = "built"
GenRan   == GenBuilt /\ genOut.status # "none"

\* The in-channels the first convolution of a sub-module was constructed with.
InChannels(name) == Sub(gen, name)[1].inC

\* C1: the tensor forward feeds to each decoder stage has the channel count the
\* stage was constructed with: filters[2]+filters[2] for upconv2,
\* filters[3]+filters[1] for upconv1, filters[4]+filters[0]+input_channels for
\* conv_11.
C1_DecoderChannelsMatch ==
    GenRan =>
        LET f == gen.filters
        IN  /\ genOut.cat2.ok =>
                  /\ genOut.cat2.c = InChannels("upconv2")
                  /\ genOut.cat2.c = f[3] + f[3]
            /\ genOut.cat1.ok =>
                  /\ genOut.cat1.c = InChannels("upconv1")
                  /\ genOut.cat1.c = f[4] + f[2]
            /\ genOut.cat0.ok =>
                  /\ genOut.cat0.c = InChannels("conv_11")
                  /\ genOut.cat0.c = f[5] + f[1] + gen.input_channels

\* forward has fed all three decoder stages of a generator whose filters are all
\* different, with attention and residual blocks.
C1_Witness ==
    /\ GenRan /\ genOut.status = "returned"
    /\ gen.filters = <<2, 3, 8, 5, 6, 7>> /\ gen.use_attention /\ gen.resnet_blocks >= 1
    /\ genOut.cat0.ok /\ genOut.cat1.ok /\ genOut.cat2.ok

MultipleOf4(x) == x.h % 4 = 0 /\ x.w % 4 = 0

\* forward was given an input of input_channels channels.
GenRanOnInput == GenRan /\ genOut.x.c = gen.input_channels

CatSteps == {"cat2", "cat1", "cat0"}
AfterCats == {"conv_11", "conv_11_a", "conv_12", "nowhere"}

\* C8 as stated: when H and W are multiples of 4, forward returns a tensor of
\* shape (B, 3, H, W) for every filters tuple, norm_layer, use_attention,
\* append_smoothers and tanh setting (read here on builds whose normalization
\* layers accept every input).
C8_AsStated ==
    (GenRanOnInput /\ MultipleOf4(genOut.x) /\ ~genOut.strict) =>
        /\ genOut.status = "returned"
        /\ genOut.output = Shape(genOut.x.b, 3, genOut.x.h, genOut.x.w)

\* C8, amended: no concatenation of forward fails when H and W are multiples of
\* 4, and forward never gets past the concatenations when they are not; whenever
\* forward returns, its output has shape (B, 3, H, W); and it returns on every
\* input with H and W multiples of 4 unless SelfAttention was built for fewer
\* than 8 channels or a normalization layer refuses a single-element input.
C8_ShapeWhenReturned ==
    GenRanOnInput =>
        /\ MultipleOf4(genOut.x) => genOut.raised_at \notin CatSteps
        /\ ~MultipleOf4(genOut.x) =>
              genOut.status = "raised" /\ genOut.raised_at \notin AfterCats
        /\ genOut.status = "returned" =>
              genOut.output = Shape(genOut.x.b, 3, genOut.x.h, genOut.x.w)
        /\ (/\ MultipleOf4(genOut.x)
            /\ ~genOut.strict
            /\ (~gen.use_attention \/ gen.filters[3] >= 8)) =>
              genOut.status = "returned"

\* forward has returned on an 8 x 4 input of 1 channel, with smoothers and tanh.
C8_Witness ==
    /\ GenRanOnInput /\ genOut.status = "returned"
    /\ genOut.x.h = 8 /\ genOut.x.w = 4 /\ gen.input_channels = 1
    /\ gen.append_smoothers /\ gen.tanh /\ gen.use_attention
    /\ genOut.output.c = 3

-----------------------------------------------------------------------------
(* The two constructors *)

CtorNext == GenInit \/ DiscInit
CtorSpec == AllIdle /\ [][CtorNext]_vars

GenNormNames  == {"None", "batch_norm", "instance_norm", "group_norm"}
DiscNormNames == {"None", "batch_norm", "instance_norm"}

\* C6: GeneratorJ's constructor raises the unknown-normalization ValueError
\* exactly for the norm_layer values other than None, 'batch_norm',
\* 'instance_norm' and 'group_norm', and then no sub-module has been created;
\* DiscriminatorN_IN's constructor raises ValueError exactly for the values other
\* than 'batch_norm', 'instance_norm' and None, and then self.net is not built.
C6_NormLayerNames ==
    /\ gen.status # "none" =>
          /\ (gen.status = "ValueError" /\ gen.error = "Unknown normalization")
                <=> gen.norm_arg \notin GenNormNames
          /\ gen.norm_arg \notin GenNormNames => gen.mods = <<>>
    /\ disc.status # "none" =>
          /\ disc.status = "ValueError" <=> disc.norm_arg \notin DiscNormNames
          /\ disc.status = "ValueError" => disc.net = <<>>
          /\ disc.status = "built" => disc.net # <<>>

\* Both constructors have refused a name, the discriminator 'group_norm'.
C6_Witness ==
    /\ gen.status = "ValueError" /\ gen.norm_arg = "layer_norm"
    /\ disc.status = "ValueError" /\ disc.norm_arg = "group_norm"

\* GeneratorJ has been built with 'group_norm'.
C6_GroupNormBuilt == GenBuilt /\ gen.norm_arg = "group_norm"

-----------------------------------------------------------------------------
(* Claims about ResidualBlock *)

ResRan == res.status = "built" /\ resOut.status # "none"

\* The layers a stage of conv_block holds, by kind, for the block's arguments.
StageKinds ==
    (IF res.norm_layer # "None" THEN <<res.norm_layer>> ELSE <<>>)
    \o <<"ReLU">>
    \o (IF res.dropout > 0 THEN <<"Dropout">> ELSE <<>>)
    \o <<"Conv2d">>

\* conv_block is two stages, each [norm] -> activation -> [Dropout] -> 3x3
\* stride-1 padding-1 convolution dim -> dim.
ConvBlockIsTwoPreActivationStages ==
    res.status = "built" =>
        LET n == Len(StageKinds)
        IN  /\ Len(res.conv_block) = 2 * n
            /\ \A j \in 1..n :
                  /\ res.conv_block[j].kind = StageKinds[j]
                  /\ res.conv_block[n + j].kind = StageKinds[j]
            /\ \A j \in {n, 2 * n} :
                  /\ res.conv_block[j].inC = res.dim /\ res.conv_block[j].outC = res.dim
                  /\ res.conv_block[j].k = 3 /\ res.conv_block[j].s = 1
                  /\ res.conv_block[j].p = 1

\* forward returned the value x had when it was called plus conv_block of that
\* value, in the shape of x.
ForwardIsInputPlusConvBlock ==
    (ResRan /\ resOut.status = "returned") =>
        /\ resOut.out.shape = resOut.x_shape
        /\ resOut.out.value =
              Add(resOut.x_before, SeqValue(res.conv_block, 1, resOut.x_before, resOut.env))

\* C4: ResidualBlock.forward returns the value its input had when forward was
\* called plus conv_block applied to that value, with the shape of the input,
\* for every configuration including norm_layer=None; and conv_block is two
\* identical pre-activation stages.
C4_ResidualIsInputPlusConvBlock ==
    ForwardIsInputPlusConvBlock /\ ConvBlockIsTwoPreActivationStages

\* With a normalization layer first, or an activation that is not inplace,
\* forward does return x + conv_block(x) and leaves x as it was.
ForwardIsInputPlusConvBlockUnlessInplaceFirst ==
    (ResRan /\ resOut.status = "returned"
       /\ (res.norm_layer # "None" \/ ~res.activation.inplace)) =>
        /\ resOut.x_after = resOut.x_before
        /\ resOut.out.value =
              Add(resOut.x_before, SeqValue(res.conv_block, 1, resOut.x_before, resOut.env))

-----------------------------------------------------------------------------
(* Claims about SelfAttention *)

AttnRan == attn.status = "built" /\ attn.kind = "SelfAttention" /\ attnOut.status # "none"

\* C9: for in_dim = C >= 8, SelfAttention.forward returns a tensor of the shape
\* (B, C, width, height) of its input, out = gamma * attended + x, with an
\* attention matrix of N x N for N = width*height; while gamma is the 0 it is
\* constructed with, forward returns exactly x, as the identity stage does.
C9_AttentionKeepsShapeAndStartsAsIdentity ==
    (AttnRan /\ attn.in_dim >= 8 /\ attnOut.x.shape.c = attn.in_dim) =>
        LET x == attnOut.x
            n == x.shape.h * x.shape.w
        IN  /\ attnOut.status = "returned"
            /\ attnOut.y.shape = x.shape
            /\ attnOut.attention = Shape3(x.shape.b, n, n)
            /\ attnOut.y.val = Add(Scale(attnOut.gamma, attnOut.out), x.val)
            /\ attnOut.fresh => attnOut.gamma = 0
            /\ attnOut.gamma = 0 => attnOut.y = x

\* A freshly constructed layer of 8 channels has been run on a 2 x 2 input whose
\* attended values differ from the input.
C9_Witness ==
    /\ AttnRan /\ attnOut.fresh /\ attn.in_dim = 8
    /\ attnOut.status = "returned"
    /\ attnOut.x.shape = Shape(2, 8, 2, 2)
    /\ attnOut.out # attnOut.x.val /\ attnOut.out # Vec(0, 0)
    /\ attnOut.y = attnOut.x

-----------------------------------------------------------------------------
(* Claims about PerceptualVGG19 *)

VggRan == vgg.status = "built" /\ vggOut.status = "returned"

\* What features[0 .. i] compute from the value v, as functions of the value.
VggOutput(i, v) ==
    SeqValue(VggFeatures(i), 1, v, [training |-> FALSE, strict |-> FALSE, masks |-> <<>>])

\* The outputs of the layers of S with index i or more, in increasing order of
\* index, one after the other.
RECURSIVE OutputsInOrder(_, _, _, _)
OutputsInOrder(S, i, last, v) ==
    IF i > last THEN <<>>
    ELSE (IF i \in S THEN VggOutput(i, v) ELSE <<>>) \o OutputsInOrder(S, i + 1, last, v)

====
